---- MODULE Spec2Model ----
(***************************************************************************)
(* Badge generators of qr_code_generator: the three scripts                *)
(*   generate_badges.py            (variant "base", PNG output)            *)
(*   generate_badges-for-test.py   (variant "test", JPEG output)           *)
(*   generate_badges2.py           (variant "pdf",  two-page PDF output)   *)
(* Strings are sequences of one-character strings.  A JSON object is a     *)
(* record whose fields say whether the key is present and what it holds.   *)
(***************************************************************************)
EXTENDS Integers, Sequences, FiniteSets, TLC

VARIABLES
    variant,         \* which of the three scripts runs
    inputFile,       \* state of the participants file: "ok", "missing", "invalid"
    templateExists,  \* whether background.png exists (read by the pdf variant)
    people,          \* the records the participants file holds
    pc,              \* "start", "loop", "done", "exit" (early exit), "crash"
    idx,             \* 1-based position of the loop in people
    files,           \* output folder: path -> badge written there
    success_count,   \* main()'s success_count (base variant)
    log,             \* console lines, as <<record index, kind>>
    outcome,         \* per record: "pending", "skipped", "saved", "failed", "aborted"
    faults,          \* environment failures met, as <<record index, "qr" | "save">>
    arg,             \* input of the pure-function specifications
    res              \* their result

vars == <<variant, inputFile, templateExists, people, pc, idx, files,
          success_count, log, outcome, faults, arg, res>>

(*************************** bounds ****************************************)
MaxPeople == 2
MaxWords == 4
MaxBearing == 4

(*************************** strings ***************************************)
Variants == {"base", "test", "pdf"}

IsSpace(c) == c = " "

RECURSIVE LStrip(_)
LStrip(s) == IF s # <<>> /\ IsSpace(Head(s)) THEN LStrip(Tail(s)) ELSE s

RECURSIVE RStrip(_)
RStrip(s) ==
    IF s # <<>> /\ IsSpace(s[Len(s)]) THEN RStrip(SubSeq(s, 1, Len(s) - 1)) ELSE s

\* str.strip()
Strip(s) == RStrip(LStrip(s))

UpperChar(c) ==
    CASE c = "a" -> "A" [] c = "l" -> "L" [] c = "n" -> "N" [] c = "o" -> "O"
      [] c = "m" -> "M" [] c = "e" -> "E" [] c = "k" -> "K" [] c = "w" -> "W"
      [] c = "u" -> "U" [] OTHER -> c

\* str.upper()
Upper(s) == [i \in 1..Len(s) |-> UpperChar(s[i])]

Zeros(n) == [i \in 1..n |-> "0"]

\* str.zfill(width): pads on the left with "0", after a leading sign if any
Zfill(s, width) ==
    IF Len(s) >= width THEN s
    ELSE IF s # <<>> /\ Head(s) \in {"+", "-"}
         THEN <<Head(s)>> \o Zeros(width - Len(s)) \o Tail(s)
         ELSE Zeros(width - Len(s)) \o s

\* dict.get(key, default)
Get(field, default) == IF field.has THEN field.v ELSE default

Min(a, b) == IF a < b THEN a ELSE b

Abs(a) == IF a < 0 THEN 0 - a ELSE a

S_Unknown == <<"U", "n", "k", "n", "o", "w", "n">>
S_No_Name == <<"N", "o", " ", "N", "a", "m", "e">>
S_NO_NAME == <<"N", "O", " ", "N", "A", "M", "E">>
S_NO_ID == <<"N", "O", "-", "I", "D">>
S_000 == <<"0", "0", "0">>

(*************************** program constants *****************************)
WIDTH == 1120
W == 600
WrapWidth == 22
NameMargin == 100
IdWidth == 3

(*************************** fonts and text measurement ********************)
\* A font as F(size, bold) / get_font return it: the glyph advance and the
\* left bearing that textbbox reports.  adv 6, lb 0 is ImageFont.load_default().
Fonts == {[adv |-> 6, lb |-> 0], [adv |-> 24, lb |-> 2], [adv |-> 30, lb |-> 3]}

\* draw.textbbox((0, 0), text, font): left and right edge
textbbox(text, font) ==
    [left |-> font.lb, right |-> font.lb + Len(text) * font.adv]

(*************************** textwrap.wrap *********************************)
IsBlank(chunk) == \A i \in 1..Len(chunk) : IsSpace(chunk[i])

RECURSIVE RunLen(_, _)
RunLen(s, sp) ==
    IF s # <<>> /\ IsSpace(Head(s)) = sp THEN 1 + RunLen(Tail(s), sp) ELSE 0

\* TextWrapper._split: maximal runs of whitespace and of non-whitespace
RECURSIVE Chunks(_)
Chunks(s) ==
    IF s = <<>> THEN <<>>
    ELSE LET n == RunLen(s, IsSpace(Head(s)))
         IN  <<SubSeq(s, 1, n)>> \o Chunks(SubSeq(s, n + 1, Len(s)))

RECURSIVE Flatten(_)
Flatten(cs) == IF cs = <<>> THEN <<>> ELSE Head(cs) \o Flatten(Tail(cs))

\* the inner loop of _wrap_chunks: take chunks while they fit on the line
RECURSIVE Fill(_, _, _)
Fill(chunks, cur, width) ==
    IF chunks # <<>> /\ Len(Flatten(cur)) + Len(Head(chunks)) <= width
    THEN Fill(Tail(chunks), Append(cur, Head(chunks)), width)
    ELSE [cur |-> cur, rest |-> chunks]

\* TextWrapper._wrap_chunks with drop_whitespace and break_long_words
RECURSIVE WrapChunks(_, _, _)
WrapChunks(chunks, lines, width) ==
    IF chunks = <<>> THEN lines
    ELSE LET c0 == IF IsBlank(Head(chunks)) /\ lines # <<>>
                   THEN Tail(chunks) ELSE chunks
             f == Fill(c0, <<>>, width)
             long == f.rest # <<>> /\ Len(Head(f.rest)) > width
             space_left == width - Len(Flatten(f.cur))
             cur1 == IF long
                     THEN Append(f.cur, SubSeq(Head(f.rest), 1, space_left))
                     ELSE f.cur
             rest1 == IF long
                      THEN <<SubSeq(Head(f.rest), space_left + 1, Len(Head(f.rest)))>>
                           \o Tail(f.rest)
                      ELSE f.rest
             cur2 == IF cur1 # <<>> /\ IsBlank(cur1[Len(cur1)])
                     THEN SubSeq(cur1, 1, Len(cur1) - 1) ELSE cur1
         IN  WrapChunks(rest1,
                        IF cur2 # <<>> THEN Append(lines, Flatten(cur2)) ELSE lines,
                        width)

\* textwrap.wrap(text, width)
wrap(text, width) == WrapChunks(Chunks(text), <<>>, width)

\* " ".join(parts)
RECURSIVE Join(_)
Join(parts) ==
    IF parts = <<>> THEN <<>>
    ELSE IF Len(parts) = 1 THEN Head(parts)
    ELSE Head(parts) \o <<" ">> \o Join(Tail(parts))

\* wrapped[1:3]
Slice13(wrapped) == SubSeq(wrapped, 2, Min(3, Len(wrapped)))

(*************************** drawing ***************************************)
Op(page, op, text) == [page |-> page, op |-> op, text |-> text]

\* mutant of NameBlock: every wrapped line is drawn
NameBlock_AllLines(name, font) ==
    IF textbbox(name, font).right > W - NameMargin
    THEN LET wrapped == wrap(name, WrapWidth)
         IN  IF Len(wrapped) >= 2
             THEN [k \in 1..Len(wrapped) |-> Op(1, "name", wrapped[k])]
             ELSE <<Op(1, "name", name)>>
    ELSE <<Op(1, "name", name)>>

\* the name block of the test variant: one line, or the first wrapped line
\* and the join of the next two
NameBlock(name, font) ==
    IF textbbox(name, font).right > W - NameMargin
    THEN LET wrapped == wrap(name, WrapWidth)
         IN  IF Len(wrapped) >= 2
             THEN <<Op(1, "name", wrapped[1]), Op(1, "name", Join(Slice13(wrapped)))>>
             ELSE <<Op(1, "name", name)>>
    ELSE <<Op(1, "name", name)>>

\* create_badge up to the chip
OpsBeforeChipBase(full_name) ==
    <<Op(1, "background", <<>>), Op(1, "header", <<>>), Op(1, "title", <<>>),
      Op(1, "name", full_name), Op(1, "role", <<>>)>>

\* mutant of OpsBase: the identifier label is drawn before the chip is pasted
OpsBase_LabelFirst(full_name, participant_id, qrOK) ==
    OpsBeforeChipBase(full_name)
    \o <<Op(1, "idlabel", <<"I", "D", ":", " ">> \o participant_id)>>
    \o (IF qrOK THEN <<Op(1, "chip", participant_id)>> ELSE <<>>)
    \o <<Op(1, "border", <<>>)>>

\* create_badge: the whole drawing sequence
OpsBase(full_name, participant_id, qrOK) ==
    OpsBeforeChipBase(full_name)
    \o (IF qrOK THEN <<Op(1, "chip", participant_id)>> ELSE <<>>)
    \o <<Op(1, "idlabel", <<"I", "D", ":", " ">> \o participant_id),
         Op(1, "border", <<>>)>>

\* test variant: what is drawn before make_qr_badge is called
OpsBeforeChipTest == <<Op(1, "background", <<>>)>>

\* mutant of OpsTest: the chip encodes the name instead of the identifier
OpsTest_NamePayload(name, pid, font) ==
    OpsBeforeChipTest
    \o <<Op(1, "chip", name)>>
    \o NameBlock(name, font)
    \o <<Op(1, "branch", <<>>), Op(1, "idlabel", pid)>>

\* test variant: the whole drawing sequence
OpsTest(name, pid, font) ==
    OpsBeforeChipTest
    \o <<Op(1, "chip", pid)>>
    \o NameBlock(name, font)
    \o <<Op(1, "branch", <<>>), Op(1, "idlabel", pid)>>

\* pdf variant: page 1, and page 2 up to the chip
OpsBeforeChipPdf(name) ==
    <<Op(1, "background", <<>>), Op(1, "name", name), Op(1, "branch", <<>>),
      Op(1, "role", <<>>),
      Op(2, "background", <<>>), Op(2, "name", name)>>

\* pdf variant: the whole drawing sequence
OpsPdf(name, pid) ==
    OpsBeforeChipPdf(name) \o <<Op(2, "chip", pid), Op(2, "idlabel", pid)>>

(*************************** records ***************************************)
Field(s) == [has |-> TRUE, v |-> s]
Absent == [has |-> FALSE, v |-> <<>>]

NameInputs ==
    {Absent, Field(<<" ">>), Field(S_Unknown), Field(S_No_Name),
     Field(S_NO_NAME), Field(<<"A", "l">>)}

IdInputs == {Absent, Field(<<"7">>), Field(<<"0", "0", "7">>)}

Records == [name : NameInputs, id : IdInputs]

\* the name as each variant reads it
NameBase(person) == Strip(Get(person.name, S_Unknown))
NameTest(person) == Upper(Strip(Get(person.name, S_No_Name)))
NamePdf(person) == Upper(Strip(Get(person.name, S_No_Name)))

\* mutant of SkipBase: the placeholder is not recognised
SkipBase_NoPlaceholder(full_name) == full_name = <<>>

\* the skip test of each variant
SkipBase(full_name) == full_name = <<>> \/ full_name = S_Unknown
SkipTest(name) == name = <<>> \/ name = S_NO_NAME
SkipPdf(name) == name = <<>> \/ name \in {S_NO_NAME, <<" ">>}

\* mutant of IdPdf: the identifier is not padded
IdPdf_NoPad(person) == Get(person.id, S_000)

\* the identifier as each variant uses it for the chip, the label and the path
IdBase(person) == Get(person.id, S_NO_ID)
IdTest(person) == Zfill(Get(person.id, S_000), IdWidth)
IdPdf(person) == Zfill(Get(person.id, S_000), IdWidth)

Path(id, ext) == [id |-> id, ext |-> ext]

Badge(i, ops) == [rec |-> i, ops |-> ops]

\* mutant of Save: an existing file is kept
Save_KeepFirst(fs, path, badge) ==
    [q \in DOMAIN fs \cup {path} |-> IF q \in DOMAIN fs THEN fs[q] ELSE badge]

\* file.save / pdf.save: the file at path becomes badge
Save(fs, path, badge) ==
    [q \in DOMAIN fs \cup {path} |-> IF q = path THEN badge ELSE fs[q]]

Set(f, i, v) == [f EXCEPT ![i] = v]

(*************************** the run ***************************************)
RECURSIVE SeqsUpTo(_, _)
SeqsUpTo(S, n) ==
    IF n = 0 THEN {<<>>}
    ELSE LET shorter == SeqsUpTo(S, n - 1)
         IN  shorter \cup {Append(q, x) : q \in {t \in shorter : Len(t) = n - 1}, x \in S}

PeopleInputs == SeqsUpTo(Records, MaxPeople)

NoFiles == [q \in {} |-> 0]

RunInit ==
    /\ variant \in Variants
    /\ inputFile \in {"ok", "missing", "invalid"}
    /\ templateExists \in BOOLEAN
    /\ people \in PeopleInputs
    /\ pc = "start"
    /\ idx = 1
    /\ files = NoFiles
    /\ success_count = 0
    /\ log = {}
    /\ outcome = [i \in 1..Len(people) |-> "pending"]
    /\ faults = {}

Init == RunInit /\ arg = "none" /\ res = "none"

\* mutant of FatalInput: the pdf variant does not look for its template
FatalInput_NoTemplateCheck(v, input, template) == input # "ok"

\* the start-up checks that end the run before the loop
FatalInput(v, input, template) ==
    CASE v = "base" -> input # "ok"
      [] v = "test" -> input # "ok"
      [] v = "pdf" -> ~template \/ input # "ok"

\* load_participants returns [] / json.load raises / background.png is missing
StartFatal ==
    /\ pc = "start"
    /\ FatalInput(variant, inputFile, templateExists)
    /\ pc' = "exit"
    /\ log' = log \cup {<<0, "fatal">>}
    /\ UNCHANGED <<variant, inputFile, templateExists, people, idx, files,
                   success_count, outcome, faults, arg, res>>

\* load_participants raises ValueError on an empty list, and main does not catch it
StartEmptyBase ==
    /\ pc = "start"
    /\ variant = "base"
    /\ ~FatalInput(variant, inputFile, templateExists)
    /\ people = <<>>
    /\ pc' = "crash"
    /\ UNCHANGED <<variant, inputFile, templateExists, people, idx, files,
                   success_count, log, outcome, faults, arg, res>>

StartOK ==
    /\ pc = "start"
    /\ ~FatalInput(variant, inputFile, templateExists)
    /\ variant = "base" => people # <<>>
    /\ pc' = "loop"
    /\ UNCHANGED <<variant, inputFile, templateExists, people, idx, files,
                   success_count, log, outcome, faults, arg, res>>

Fault(i, qrOK, saveOK) ==
    (IF qrOK THEN {} ELSE {<<i, "qr">>}) \cup (IF saveOK THEN {} ELSE {<<i, "save">>})

\* base variant: one iteration of main's loop, create_badge included
CreateBadge ==
    /\ pc = "loop"
    /\ variant = "base"
    /\ idx <= Len(people)
    /\ LET person == people[idx]
           full_name == NameBase(person)
           participant_id == IdBase(person)
       IN  IF SkipBase(full_name)
           THEN /\ log' = log \cup {<<idx, "skip">>}
                /\ outcome' = Set(outcome, idx, "skipped")
                /\ UNCHANGED <<files, success_count, faults>>
           ELSE \E qrOK \in BOOLEAN, saveOK \in BOOLEAN :
                  /\ faults' = faults \cup Fault(idx, qrOK, saveOK)
                  /\ IF saveOK
                     THEN /\ files' = Save(files, Path(participant_id, "png"),
                                           Badge(idx, OpsBase(full_name, participant_id, qrOK)))
                          /\ success_count' = success_count + 1
                          /\ log' = log \cup {<<idx, "generated">>}
                                        \cup (IF qrOK THEN {} ELSE {<<idx, "qrwarn">>})
                          /\ outcome' = Set(outcome, idx, "saved")
                     ELSE /\ log' = log \cup {<<idx, "saveerr">>}
                                        \cup (IF qrOK THEN {} ELSE {<<idx, "qrwarn">>})
                          /\ outcome' = Set(outcome, idx, "failed")
                          /\ UNCHANGED <<files, success_count>>
    /\ idx' = idx + 1
    /\ UNCHANGED <<variant, inputFile, templateExists, people, pc, arg, res>>

\* test variant: one iteration of the module-level loop
LoopTest ==
    /\ pc = "loop"
    /\ variant = "test"
    /\ idx <= Len(people)
    /\ LET p == people[idx]
           name == NameTest(p)
           pid == IdTest(p)
       IN  IF SkipTest(name)
           THEN /\ outcome' = Set(outcome, idx, "skipped")
                /\ idx' = idx + 1
                /\ UNCHANGED <<pc, files, log, faults>>
           ELSE \E qrOK \in BOOLEAN, saveOK \in BOOLEAN, font \in Fonts :
                  IF qrOK /\ saveOK
                  THEN /\ files' = Save(files, Path(pid, "jpg"),
                                        Badge(idx, OpsTest(name, pid, font)))
                       /\ log' = log \cup {<<idx, "generated">>}
                       /\ outcome' = Set(outcome, idx, "saved")
                       /\ idx' = idx + 1
                       /\ UNCHANGED <<pc, faults>>
                  ELSE \* make_qr_badge or bg.save raises: nothing catches it
                       /\ faults' = faults \cup
                              (IF qrOK THEN {<<idx, "save">>} ELSE {<<idx, "qr">>})
                       /\ outcome' = Set(outcome, idx, "aborted")
                       /\ pc' = "crash"
                       /\ UNCHANGED <<idx, files, log>>
    /\ UNCHANGED <<variant, inputFile, templateExists, people, success_count, arg, res>>

\* pdf variant: one iteration of the module-level loop
LoopPdf ==
    /\ pc = "loop"
    /\ variant = "pdf"
    /\ idx <= Len(people)
    /\ LET p == people[idx]
           name == NamePdf(p)
           pid == IdPdf(p)
       IN  IF SkipPdf(name)
           THEN /\ outcome' = Set(outcome, idx, "skipped")
                /\ idx' = idx + 1
                /\ UNCHANGED <<pc, files, log, faults>>
           ELSE \E qrOK \in BOOLEAN, saveOK \in BOOLEAN :
                  IF qrOK /\ saveOK
                  THEN /\ files' = Save(files, Path(pid, "pdf"),
                                        Badge(idx, OpsPdf(name, pid)))
                       /\ log' = log \cup {<<idx, "generated">>}
                       /\ outcome' = Set(outcome, idx, "saved")
                       /\ idx' = idx + 1
                       /\ UNCHANGED <<pc, faults>>
                  ELSE \* make_qr_badge or pdf.save raises: nothing catches it
                       /\ faults' = faults \cup
                              (IF qrOK THEN {<<idx, "save">>} ELSE {<<idx, "qr">>})
                       /\ outcome' = Set(outcome, idx, "aborted")
                       /\ pc' = "crash"
                       /\ UNCHANGED <<idx, files, log>>
    /\ UNCHANGED <<variant, inputFile, templateExists, people, success_count, arg, res>>

\* the loop is over: the summary is printed
Finish ==
    /\ pc = "loop"
    /\ idx > Len(people)
    /\ pc' = "done"
    /\ log' = log \cup {<<0, "summary">>}
    /\ UNCHANGED <<variant, inputFile, templateExists, people, idx, files,
                   success_count, outcome, faults, arg, res>>

Next ==
    \/ StartFatal
    \/ StartEmptyBase
    \/ StartOK
    \/ CreateBadge
    \/ LoopTest
    \/ LoopPdf
    \/ Finish

Spec == Init /\ [][Next]_vars

(*************************** name layout, as a function ********************)
WordLens == {1, 10, 22, 25}
SepLens == {1, 2}

Word(n) == [i \in 1..n |-> "A"]
Spaces(n) == [i \in 1..n |-> " "]

RECURSIVE NamesOf(_)
NamesOf(k) ==
    IF k = 1 THEN {Word(n) : n \in WordLens}
    ELSE {a \o Spaces(sp) \o Word(n) : a \in NamesOf(k - 1), sp \in SepLens, n \in WordLens}

LayoutNames == UNION {NamesOf(k) : k \in 1..MaxWords}

RunIdle ==
    /\ variant = "test"
    /\ inputFile = "ok"
    /\ templateExists = TRUE
    /\ people = <<>>
    /\ idx = 1
    /\ files = NoFiles
    /\ success_count = 0
    /\ log = {}
    /\ outcome = <<>>
    /\ faults = {}

InitLayout ==
    /\ RunIdle
    /\ pc = "call"
    /\ arg \in [name : LayoutNames, font : Fonts]
    /\ res = <<>>

\* the test variant composes the badge of a record named arg.name
ComposeTest ==
    /\ pc = "call"
    /\ res' = OpsTest(arg.name, S_000, arg.font)
    /\ pc' = "ret"
    /\ UNCHANGED <<variant, inputFile, templateExists, people, idx, files,
                   success_count, log, outcome, faults, arg>>

NextLayout == ComposeTest

SpecLayout == InitLayout /\ [][NextLayout]_vars

(*************************** centring, as a function ***********************)
CanvasWidths == {W - 1, W, WIDTH}
TextWidths == {0, 1, 2, 3, 199, 200, 597, 598, 599, 600, 601, 602, 1119, 1120, 1300}

\* draw_centered_text: x = (width - text_width) / 2, a float; twice x is returned
XBase2(bbox, width) == width - (bbox.right - bbox.left)

\* test variant's draw_centered: w is the right edge of the bounding box
XTest(bbox) == (W - bbox.right) \div 2

\* pdf variant's draw_centered
XPdf(bbox) == (W - (bbox.right - bbox.left)) \div 2

InitCenter ==
    /\ RunIdle
    /\ pc = "call"
    /\ arg \in {a \in [v : Variants, width : CanvasWidths,
                       left : (0 - MaxBearing)..MaxBearing, tw : TextWidths] :
                  a.v # "base" => a.width = W}
    /\ res = 0

ArgBox == [left |-> arg.left, right |-> arg.left + arg.tw]

DrawCenteredBase ==
    /\ pc = "call"
    /\ arg.v = "base"
    /\ res' = XBase2(ArgBox, arg.width)
    /\ pc' = "ret"
    /\ UNCHANGED <<variant, inputFile, templateExists, people, idx, files,
                   success_count, log, outcome, faults, arg>>

DrawCenteredTest ==
    /\ pc = "call"
    /\ arg.v = "test"
    /\ res' = 2 * XTest(ArgBox)
    /\ pc' = "ret"
    /\ UNCHANGED <<variant, inputFile, templateExists, people, idx, files,
                   success_count, log, outcome, faults, arg>>

DrawCenteredPdf ==
    /\ pc = "call"
    /\ arg.v = "pdf"
    /\ res' = 2 * XPdf(ArgBox)
    /\ pc' = "ret"
    /\ UNCHANGED <<variant, inputFile, templateExists, people, idx, files,
                   success_count, log, outcome, faults, arg>>

NextCenter ==
    \/ DrawCenteredBase
    \/ DrawCenteredTest
    \/ DrawCenteredPdf

SpecCenter == InitCenter /\ [][NextCenter]_vars

(*************************** properties ************************************)
Indices == 1..Len(people)
Processed(i) == outcome[i] # "pending"
Saved == {i \in Indices : outcome[i] = "saved"}
Surviving == {i \in Indices : Processed(i) /\ outcome[i] # "skipped"}
BadgesOf(i) == {q \in DOMAIN files : files[q].rec = i}
Ext == CASE variant = "base" -> "png" [] variant = "test" -> "jpg" [] variant = "pdf" -> "pdf"

\* the name is missing, empty after trimming, or the variant's placeholder
PlaceholderName(person) ==
    \/ ~person.name.has
    \/ Strip(person.name.v) = <<>>
    \/ person.name.v = (IF variant = "base" THEN S_Unknown ELSE S_NO_NAME)

\* the identifier under which a record's badge is written
OutId(person) ==
    IF variant = "base" THEN Get(person.id, S_NO_ID)
    ELSE Zfill(Get(person.id, S_000), IdWidth)

ChipTexts(badge) ==
    {badge.ops[k].text : k \in {j \in 1..Len(badge.ops) : badge.ops[j].op = "chip"}}

\* C1: a record whose name is missing, empty after trimming or the placeholder
\* is skipped: once the loop has handled it, no file is its badge, it is neither
\* reported as generated nor counted in success_count, the loop has moved on to
\* the next record and the run has not stopped on it.
C1_SkipRule ==
    \A i \in Indices :
        (Processed(i) /\ PlaceholderName(people[i])) =>
            /\ outcome[i] = "skipped"
            /\ BadgesOf(i) = {}
            /\ <<i, "generated">> \notin log
            /\ success_count <= Cardinality({j \in Indices : Processed(j)} \ {i})
            /\ variant = "base" => success_count = Cardinality(Saved)
            /\ idx > i
            /\ (idx = i + 1 /\ i < Len(people)) =>
                  (pc = "loop" \/ outcome[i + 1] = "aborted")

C1_Witness ==
    \E i \in Indices, j \in Indices :
        /\ i < j
        /\ PlaceholderName(people[i])
        /\ outcome[i] = "skipped"
        /\ outcome[j] = "saved"

\* C2: when the input file is missing or unparseable, or the pdf variant's
\* background template is missing, the run never enters the loop: no record is
\* processed and no badge file is written.
C2_FatalInput ==
    (inputFile # "ok" \/ (variant = "pdf" /\ ~templateExists)) =>
        /\ pc \in {"start", "exit"}
        /\ files = NoFiles
        /\ \A i \in Indices : ~Processed(i)
        /\ success_count = 0

C2_Witness ==
    /\ pc = "exit"
    /\ people # <<>>
    /\ \A i \in Indices : ~PlaceholderName(people[i])
    /\ inputFile # "ok" \/ (variant = "pdf" /\ ~templateExists)

\* C3 as stated: after a run over records with pairwise distinct identifiers the
\* folder holds exactly one file per non-skipped record, named by the record's
\* identifier zero-padded to three characters.  Stated for the runs in which no
\* chip generation and no save fails.
C3_Original ==
    (/\ pc = "done"
     /\ faults = {}
     /\ \A i \in Indices, j \in Indices : i # j => people[i].id # people[j].id) =>
        /\ Cardinality(DOMAIN files) = Cardinality(Surviving)
        /\ \A i \in Surviving :
              people[i].id.has =>
                  LET q == Path(Zfill(people[i].id.v, IdWidth), Ext)
                  IN  q \in DOMAIN files /\ files[q].rec = i

\* C3 as amended: the files written are exactly those of the records handled so
\* far that were not skipped and whose save succeeded, each named by the
\* variant's output identifier (zero-padded to three characters in the test and
\* pdf variants, as given in the base variant); when those output identifiers
\* are pairwise distinct there is exactly one file per such record, its own.
C3_OneFilePerSavedRecord ==
    /\ DOMAIN files = {Path(OutId(people[i]), Ext) : i \in Saved}
    /\ (\A i \in Saved, j \in Saved : i # j => OutId(people[i]) # OutId(people[j])) =>
          /\ Cardinality(DOMAIN files) = Cardinality(Saved)
          /\ \A i \in Saved : files[Path(OutId(people[i]), Ext)].rec = i

C3_Witness ==
    /\ pc = "done"
    /\ variant = "base"
    /\ \E i \in Saved : people[i].id = Field(<<"7">>)
    /\ \E i \in Indices : outcome[i] \in {"skipped", "failed"}
    /\ DOMAIN files = {Path(<<"7">>, "png")}

\* C4 as stated: the string decoded from the chip of a record's badge is the
\* record's identifier as given in the input.
C4_Original ==
    \A q \in DOMAIN files :
        people[files[q].rec].id.has =>
            ChipTexts(files[q]) \subseteq {people[files[q].rec].id.v}

\* C4 as amended: the string decoded from the chip is the identifier after the
\* variant's conversion, which is also the file's name: str(id).zfill(3) in the
\* test and pdf variants ("7" decodes to "007", a missing id to "000"), the
\* identifier as given in the base variant; the test and pdf badges always carry
\* a chip.
C4_ChipDecodesToOutId ==
    \A q \in DOMAIN files :
        /\ ChipTexts(files[q]) \subseteq {OutId(people[files[q].rec])}
        /\ ChipTexts(files[q]) \subseteq {q.id}
        /\ variant # "base" => ChipTexts(files[q]) # {}

C4_Witness ==
    \E q \in DOMAIN files :
        /\ variant \in {"test", "pdf"}
        /\ people[files[q].rec].id = Field(<<"7">>)
        /\ ChipTexts(files[q]) = {<<"0", "0", "7">>}

\* C6 as stated: when surviving records share an identifier, after the run the
\* file at that identifier's path is the badge of the last of them in input
\* order, and there are as many files as distinct identifiers among surviving
\* records.
C6_Original ==
    (/\ pc = "done"
     /\ \E i \in Surviving, j \in Surviving :
           i # j /\ people[i].id.has /\ people[i].id = people[j].id) =>
        /\ \A i \in Surviving :
              /\ Path(OutId(people[i]), Ext) \in DOMAIN files
              /\ \A j \in Surviving :
                    people[j].id = people[i].id =>
                        files[Path(OutId(people[i]), Ext)].rec >= j
        /\ Cardinality(DOMAIN files) = Cardinality({people[i].id : i \in Surviving})

\* C6 as amended: records sharing an output identifier overwrite one another
\* without an error: the file at that path is the badge of the last such record
\* whose save succeeded, and there are as many files as distinct output
\* identifiers among the records saved.
C6_LastWriteWins ==
    /\ \A q \in DOMAIN files :
          /\ files[q].rec \in Saved
          /\ Path(OutId(people[files[q].rec]), Ext) = q
          /\ \A j \in Saved :
                Path(OutId(people[j]), Ext) = q => j <= files[q].rec
    /\ Cardinality(DOMAIN files) = Cardinality({OutId(people[i]) : i \in Saved})

C6_Witness ==
    /\ pc = "done"
    /\ \E i \in Saved, j \in Saved :
          /\ i < j
          /\ people[i].id = people[j].id
          /\ people[i].name # people[j].name
          /\ files[Path(OutId(people[i]), Ext)].rec = j
    /\ Cardinality(DOMAIN files) = 1

\* C7 as stated: a failed write of one record's file is logged, the record counts
\* as failed and the run goes on.
C7_Claim ==
    \A i \in Indices :
        <<i, "save">> \in faults =>
            /\ <<i, "saveerr">> \in log
            /\ outcome[i] = "failed"
            /\ pc # "crash"
            /\ idx > i

\* C8 as stated: a failed chip generation for one record leaves the run going:
\* the badge is written without the chip or skipped, and the loop moves on.
C8_Claim ==
    \A i \in Indices :
        <<i, "qr">> \in faults =>
            /\ pc # "crash"
            /\ idx > i

RankOf(op) ==
    CASE op = "background" -> 1 [] op = "header" -> 1 [] op = "title" -> 2
      [] op = "name" -> 3 [] op = "role" -> 4 [] op = "branch" -> 4
      [] op = "chip" -> 5 [] op = "idlabel" -> 6 [] op = "border" -> 7

\* on each page the operations come in the order of the composer's z-order
InOrder(ops) ==
    \A a \in 1..Len(ops), b \in 1..Len(ops) :
        (a < b /\ ops[a].page = ops[b].page) => RankOf(ops[a].op) <= RankOf(ops[b].op)

Pos(ops, op) == {k \in 1..Len(ops) : ops[k].op = op}

IsNotChip(o) == o.op # "chip"

\* C9 as stated: every badge is drawn background/header, title, name,
\* role/branch, chip, identifier label, border, in that order.
C9_Original ==
    \A q \in DOMAIN files :
        /\ InOrder(files[q].ops)
        /\ \A c \in Pos(files[q].ops, "chip"), n \in Pos(files[q].ops, "name") : n < c

\* C9 as amended: the base and pdf variants draw in that order; the test variant
\* pastes the chip right after the background, before the name, and draws the
\* rest in that order; in every variant the identifier label comes after the
\* chip and all pages start with the background.
C9_DrawingOrder ==
    \A q \in DOMAIN files :
        LET ops == files[q].ops
        IN  /\ variant # "test" => InOrder(ops)
            /\ variant = "test" =>
                  /\ InOrder(SelectSeq(ops, IsNotChip))
                  /\ Pos(ops, "chip") = {2}
            /\ \A c \in Pos(ops, "chip"), l \in Pos(ops, "idlabel") : c < l
            /\ Pos(ops, "idlabel") # {}
            /\ Pos(ops, "name") # {}
            /\ ops[1].op = "background"

C9_Witness ==
    /\ variant = "test"
    /\ \E q \in DOMAIN files :
          \E c \in Pos(files[q].ops, "chip"), n \in Pos(files[q].ops, "name") : c < n

IsNameOp(o) == o.op = "name"

\* C5: in the test variant a name wider than the single-line threshold is drawn
\* as at most two lines, however many lines the 22-character wrap produces: the
\* first wrapped line and the join of the next two; further wrapped lines are
\* dropped and the rest of the badge is still drawn.
C5_WrapCap ==
    (pc = "ret" /\ textbbox(arg.name, arg.font).right > W - NameMargin) =>
        LET lines == SelectSeq(res, IsNameOp)
            wrapped == wrap(arg.name, WrapWidth)
        IN  /\ Len(lines) <= 2
            /\ Len(wrapped) >= 2 =>
                  /\ Len(lines) = 2
                  /\ lines[1].text = wrapped[1]
                  /\ lines[2].text = Join(SubSeq(wrapped, 2, Min(3, Len(wrapped))))
                  /\ Len(lines[2].text) <= 2 * WrapWidth + 1
            /\ Len(wrapped) < 2 => (Len(lines) = 1 /\ lines[1].text = arg.name)
            /\ res[Len(res)].op = "idlabel"

C5_Witness ==
    /\ pc = "ret"
    /\ textbbox(arg.name, arg.font).right > W - NameMargin
    /\ Len(wrap(arg.name, WrapWidth)) >= 4
    /\ Len(SelectSeq(res, IsNameOp)) = 2

\* C10 as stated: for every line drawn by a centring helper, with measuredWidth
\* the bounding box's right edge minus its left edge,
\* |xOffset + measuredWidth/2 - canvasWidth/2| <= 1 (both sides doubled here).
C10_Claim ==
    pc = "ret" => Abs(res + arg.tw - arg.width) <= 2

====
